---- MODULE Spec2Model ----
(***************************************************************************)
(* Model of the RunningTotal aggregate UDF (test-udf/src/lib.rs) and of    *)
(* the way its tests drive it: one `init` per query execution, then one    *)
(* `process` call per row with a fresh argument list of the same shape,    *)
(* then the instance is dropped.                                           *)
(*                                                                         *)
(* The accumulator is a Rust i64.  TLC integers are 32 bits wide, so a     *)
(* mathematical integer n is kept exactly as three limbs <<top, mid, lo>>  *)
(* with n = top * Limb^2 + mid * Limb + lo, 0 <= mid, lo < Limb and Limb = *)
(* 2^21.  An i64 is such a number with -2^21 <= top < 2^21, which is the   *)
(* range -2^63 .. 2^63 - 1.                                                *)
(***************************************************************************)
EXTENDS Integers, Sequences, FiniteSets, TLC

\* ------------------------------------------------------------------------
\* Bounds of the model
\* ------------------------------------------------------------------------
\* rows delivered to one execution in the single-execution specification
MaxRows == 3
\* longest argument list handed to init
MaxArity == 2
\* rows delivered to each execution in the two-execution specification
MaxRowsConc == 2

\* ------------------------------------------------------------------------
\* i64 arithmetic
\* ------------------------------------------------------------------------
Limb == 2097152

Norm(t, m, l) ==
    LET m1 == m + (l \div Limb)
    IN  <<t + (m1 \div Limb), m1 % Limb, l % Limb>>

FromInt(n) == Norm(0, 0, n)

BigAdd(a, b) == Norm(a[1] + b[1], a[2] + b[2], a[3] + b[3])

InI64(a) == a[1] >= -Limb /\ a[1] < Limb

\* two's complement wrap-around of an out-of-range sum (release builds)
WrapI64(a) == <<((a[1] + Limb) % (2 * Limb)) - Limb, a[2], a[3]>>

I64Max == <<Limb - 1, Limb - 1, Limb - 1>>
I64Min == <<-Limb, 0, 0>>
Zero == FromInt(0)

\* ------------------------------------------------------------------------
\* Option / Result values
\* ------------------------------------------------------------------------
None == [some |-> FALSE]
Some(v) == [some |-> TRUE, v |-> v]

Ok(v) == [kind |-> "Ok", val |-> v]
Err(m) == [kind |-> "Err", msg |-> m]
\* an unwinding panic: the call did not return
Panic(why) == [kind |-> "Panic", why |-> why]
NotCalled == [kind |-> "NotCalled"]

\* ------------------------------------------------------------------------
\* SQL values and arguments
\* ------------------------------------------------------------------------
\* SqlResult: a typed scalar whose payload may be absent (SQL NULL)
IntVal(n) == [tag |-> "Int", null |-> FALSE, int |-> n]
IntNull == [tag |-> "Int", null |-> TRUE]
RealVal == [tag |-> "Real", null |-> FALSE]
StringVal == [tag |-> "String", null |-> FALSE]
DecimalVal == [tag |-> "Decimal", null |-> FALSE]

\* values a row can carry in the single-execution specification
Values ==
    {IntNull, IntVal(FromInt(10)), IntVal(FromInt(-20)),
     IntVal(I64Max), IntVal(I64Min), RealVal, StringVal, DecimalVal}

\* values a row can carry in the two-execution specification
ConcValues == {IntNull, IntVal(FromInt(10)), IntVal(I64Max)}

Names == {"", "n"}

\* one mock_args! entry: (value, name, maybe_null); nothing requested yet
MockArg(v, name, maybe_null) ==
    [value |-> v, name |-> name, maybe_null |-> maybe_null,
     coercion |-> "NoCoercion"]

\* argument lists of length n whose entries come from the set entries
MockArgsOver(entries, n) == [1..n -> entries]

\* entries of the single-execution specification: any value, name and
\* nullability
Entries == {MockArg(v, nm, mn) : v \in Values, nm \in Names, mn \in BOOLEAN}

\* entries of the two-execution specification: unnamed and not nullable, as
\* in the tests
ConcEntries == {MockArg(v, "", FALSE) : v \in ConcValues}

\* Option<NonZeroU8>
ErrorFlags == {None, Some(1), Some(255)}

\* ArgList::len
len(args) == Len(args)

\* ArgList::get, 0-based
get(args, i) == IF i + 1 \in DOMAIN args THEN Some(args[i + 1]) ELSE None

\* SqlArg::value
value(arg) == arg.value

\* SqlResult::as_int: the integer, absent for NULL and for any other type
as_int(v) == IF v.tag = "Int" /\ ~v.null THEN Some(v.int) ELSE None

\* Option::unwrap_or
unwrap_or(o, d) == IF o.some THEN o.v ELSE d

\* SqlArg<Init>::set_type_coercion: records the requested type (last wins)
set_type_coercion(arg, t) == [arg EXCEPT !.coercion = t]

\* Display of a usize, digit by digit
Digit(d) == <<"0", "1", "2", "3", "4", "5", "6", "7", "8", "9">>[d + 1]

RECURSIVE FormatUsize(_)
FormatUsize(n) ==
    IF n < 10 THEN Digit(n) ELSE FormatUsize(n \div 10) \o Digit(n % 10)

\* ------------------------------------------------------------------------
\* RunningTotal
\* ------------------------------------------------------------------------
\* init with the arity test weakened to `args.len() > 1`
init_max_arity(args) ==
    IF len(args) > 1
    THEN [ret |-> Err("expected 1 argument; got " \o FormatUsize(len(args))),
          args |-> args]
    ELSE IF ~get(args, 0).some
    THEN [ret |-> Panic("unwrap on None"), args |-> args]
    ELSE [ret |-> Ok(Zero),
          args |-> [args EXCEPT ![1] = set_type_coercion(@, "Int")]]

\* init with the arity test weakened to `args.len() < 1`
init_min_arity(args) ==
    IF len(args) < 1
    THEN [ret |-> Err("expected 1 argument; got " \o FormatUsize(len(args))),
          args |-> args]
    ELSE [ret |-> Ok(Zero),
          args |-> [args EXCEPT ![1] = set_type_coercion(@, "Int")]]

\* init that also refuses an argument whose value is not a present integer
init_reject_null(args) ==
    IF len(args) # 1
    THEN [ret |-> Err("expected 1 argument; got " \o FormatUsize(len(args))),
          args |-> args]
    ELSE IF ~as_int(value(args[1])).some
    THEN [ret |-> Err("expected an integer"), args |-> args]
    ELSE [ret |-> Ok(Zero),
          args |-> [args EXCEPT ![1] = set_type_coercion(@, "Int")]]

\* init that seeds the accumulator with the value of its argument
init_seeded(args) ==
    IF len(args) # 1
    THEN [ret |-> Err("expected 1 argument; got " \o FormatUsize(len(args))),
          args |-> args]
    ELSE [ret |-> Ok(unwrap_or(as_int(value(args[1])), Zero)),
          args |-> [args EXCEPT ![1] = set_type_coercion(@, "Int")]]

\* init that requests SqlType::Real instead of SqlType::Int
init_coerce_real(args) ==
    IF len(args) # 1
    THEN [ret |-> Err("expected 1 argument; got " \o FormatUsize(len(args))),
          args |-> args]
    ELSE [ret |-> Ok(Zero),
          args |-> [args EXCEPT ![1] = set_type_coercion(@, "Real")]]

\* init that forgets the coercion request
init_no_coercion(args) ==
    IF len(args) # 1
    THEN [ret |-> Err("expected 1 argument; got " \o FormatUsize(len(args))),
          args |-> args]
    ELSE [ret |-> Ok(Zero), args |-> args]

\* init that requests the coercion before it checks the arity
init_coerce_first(args) ==
    IF ~get(args, 0).some
    THEN [ret |-> Panic("unwrap on None"), args |-> args]
    ELSE IF len(args) # 1
    THEN [ret |-> Err("expected 1 argument; got " \o FormatUsize(len(args))),
          args |-> [args EXCEPT ![1] = set_type_coercion(@, "Int")]]
    ELSE [ret |-> Ok(Zero),
          args |-> [args EXCEPT ![1] = set_type_coercion(@, "Int")]]

\* RunningTotal::init.  ret is the returned Result<Self, String>; args is
\* the argument list as the call leaves it.
init(args) ==
    IF len(args) # 1
    THEN [ret |-> Err("expected 1 argument; got " \o FormatUsize(len(args))),
          args |-> args]
    ELSE IF ~get(args, 0).some
    THEN [ret |-> Panic("unwrap on None"), args |-> args]
    ELSE [ret |-> Ok(Zero),
          args |-> [args EXCEPT ![1] = set_type_coercion(@, "Int")]]

\* process that fails the row when the host sets the error indicator
process_error_fatal(self, args, error, checks) ==
    IF error.some
    THEN [self |-> self, ret |-> Err("ProcessError")]
    ELSE IF ~get(args, 0).some
    THEN [self |-> self, ret |-> Panic("unwrap on None")]
    ELSE LET x == unwrap_or(as_int(value(get(args, 0).v)), Zero)
             sum == BigAdd(self, x)
         IN  IF InI64(sum)
             THEN [self |-> sum, ret |-> Ok(sum)]
             ELSE IF checks
             THEN [self |-> self, ret |-> Panic("add with overflow")]
             ELSE [self |-> WrapI64(sum), ret |-> Ok(WrapI64(sum))]

\* process that fails the row when the value is present but not an integer
process_type_error(self, args, error, checks) ==
    IF ~get(args, 0).some
    THEN [self |-> self, ret |-> Panic("unwrap on None")]
    ELSE IF value(get(args, 0).v).tag # "Int"
    THEN [self |-> self, ret |-> Err("ProcessError")]
    ELSE LET x == unwrap_or(as_int(value(get(args, 0).v)), Zero)
             sum == BigAdd(self, x)
         IN  IF InI64(sum)
             THEN [self |-> sum, ret |-> Ok(sum)]
             ELSE IF checks
             THEN [self |-> self, ret |-> Panic("add with overflow")]
             ELSE [self |-> WrapI64(sum), ret |-> Ok(WrapI64(sum))]

\* process reading the integer with an unchecked unwrap()
process_unchecked_unwrap(self, args, error, checks) ==
    IF ~get(args, 0).some \/ ~as_int(value(get(args, 0).v)).some
    THEN [self |-> self, ret |-> Panic("unwrap on None")]
    ELSE LET sum == BigAdd(self, as_int(value(get(args, 0).v)).v)
         IN  IF InI64(sum)
             THEN [self |-> sum, ret |-> Ok(sum)]
             ELSE IF checks
             THEN [self |-> self, ret |-> Panic("add with overflow")]
             ELSE [self |-> WrapI64(sum), ret |-> Ok(WrapI64(sum))]

\* RunningTotal::process.  self is self.0 on entry; checks tells whether the
\* build has overflow checks; the result carries self.0 on exit.
process(self, args, error, checks) ==
    IF ~get(args, 0).some
    THEN [self |-> self, ret |-> Panic("unwrap on None")]
    ELSE LET x == unwrap_or(as_int(value(get(args, 0).v)), Zero)
             sum == BigAdd(self, x)
         IN  IF InI64(sum)
             THEN [self |-> sum, ret |-> Ok(sum)]
             ELSE IF checks
             THEN [self |-> self, ret |-> Panic("add with overflow")]
             ELSE [self |-> WrapI64(sum), ret |-> Ok(WrapI64(sum))]

\* ------------------------------------------------------------------------
\* State
\* ------------------------------------------------------------------------
Execs == {"A", "B"}

VARIABLES
    overflow_checks,  \* build setting: does `+=` panic on overflow
    phase,            \* per execution: lifecycle state of its instance
    initArgs,         \* per execution: the argument list init was given
    initRes,          \* per execution: what init returned
    rt,               \* per execution: the RunningTotal instance, if any
    rows,             \* per execution: argument lists delivered to process
    outputs,          \* per execution: what each process call returned
    lastError         \* per execution: error indicator of the latest row

vars ==
    <<overflow_checks, phase, initArgs, initRes, rt, rows, outputs, lastError>>

Init ==
    /\ overflow_checks \in BOOLEAN
    /\ phase = [e \in Execs |-> "Uninitialized"]
    /\ initArgs = [e \in Execs |-> <<>>]
    /\ initRes = [e \in Execs |-> NotCalled]
    /\ rt = [e \in Execs |-> None]
    /\ rows = [e \in Execs |-> <<>>]
    /\ outputs = [e \in Execs |-> <<>>]
    /\ lastError = [e \in Execs |-> None]

\* The caller builds an argument list from entries and calls
\* RunningTotal::init with it.
CallInit(e, entries) ==
    /\ phase[e] = "Uninitialized"
    /\ \E n \in 0..MaxArity : \E args \in MockArgsOver(entries, n) :
          LET r == init(args)
          IN  /\ initArgs' = [initArgs EXCEPT ![e] = r.args]
              /\ initRes' = [initRes EXCEPT ![e] = r.ret]
              /\ rt' = [rt EXCEPT ![e] =
                        IF r.ret.kind = "Ok" THEN Some(r.ret.val) ELSE None]
              /\ phase' = [phase EXCEPT ![e] =
                        IF r.ret.kind = "Ok" THEN "Initialized" ELSE "Aborted"]
    /\ UNCHANGED <<overflow_checks, rows, outputs, lastError>>

\* A fresh argument list for one row: the shape and metadata of the list
\* init saw, carrying this row's values.
RowArgs(e, row) ==
    [i \in DOMAIN initArgs[e] |-> [initArgs[e][i] EXCEPT !.value = row[i]]]

\* The caller delivers one row, with values from vals, to rt.process.
CallProcess(e, vals, maxRows) ==
    /\ phase[e] = "Initialized"
    /\ Len(rows[e]) < maxRows
    /\ \E row \in [DOMAIN initArgs[e] -> vals] : \E error \in ErrorFlags :
          LET args == RowArgs(e, row)
              r == process(rt[e].v, args, error, overflow_checks)
          IN  /\ rows' = [rows EXCEPT ![e] = Append(@, args)]
              /\ outputs' = [outputs EXCEPT ![e] = Append(@, r.ret)]
              /\ lastError' = [lastError EXCEPT ![e] = error]
              /\ rt' = [rt EXCEPT ![e] =
                        IF r.ret.kind = "Panic" THEN None ELSE Some(r.self)]
              /\ phase' = [phase EXCEPT ![e] =
                        IF r.ret.kind = "Ok" THEN "Initialized" ELSE "Aborted"]
    /\ UNCHANGED <<overflow_checks, initArgs, initRes>>

\* the instance handed back for another execution instead of being dropped
DropReuse(e) ==
    /\ phase[e] = "Initialized"
    /\ phase' = [phase EXCEPT ![e] = "Uninitialized"]
    /\ rt' = [rt EXCEPT ![e] = None]
    /\ UNCHANGED <<overflow_checks, initArgs, initRes, rows, outputs, lastError>>

\* The execution ends and the instance goes out of scope.
Drop(e) ==
    /\ phase[e] = "Initialized"
    /\ phase' = [phase EXCEPT ![e] = "Finalized"]
    /\ rt' = [rt EXCEPT ![e] = None]
    /\ UNCHANGED <<overflow_checks, initArgs, initRes, rows, outputs, lastError>>

\* One query execution.
Next ==
    \/ CallInit("A", Entries)
    \/ CallProcess("A", Values, MaxRows)
    \/ Drop("A")

Spec == Init /\ [][Next]_vars

\* Two query executions, interleaved in any order.
NextConc ==
    \E e \in Execs :
        \/ CallInit(e, ConcEntries)
        \/ CallProcess(e, ConcValues, MaxRowsConc)
        \/ Drop(e)

SpecConc == Init /\ [][NextConc]_vars

\* ------------------------------------------------------------------------
\* Properties
\* ------------------------------------------------------------------------
Last(q) == q[Len(q)]

\* the row's position-0 value is a present integer
IsIntRow(args) == Len(args) >= 1 /\ as_int(args[1].value).some

\* the row's position-0 value is SQL NULL
IsNullRow(args) == Len(args) >= 1 /\ args[1].value.null

\* exact sum of the position-0 integers of the first k rows, NULL as zero
RECURSIVE PrefixSum(_, _)
PrefixSum(rs, k) ==
    IF k = 0 THEN Zero
    ELSE BigAdd(PrefixSum(rs, k - 1), unwrap_or(as_int(rs[k][1].value), Zero))

\* C1: after a successful init, when the first k rows all carry a present
\* integer, the k-th process call returns Ok(x1 + ... + xk), and the
\* accumulator holds that value after the call.
RunningPrefixSums ==
    \A k \in DOMAIN rows["A"] :
        (\A j \in 1..k : IsIntRow(rows["A"][j])) =>
            /\ outputs["A"][k] = Ok(PrefixSum(rows["A"], k))
            /\ (k = Len(rows["A"]) /\ phase["A"] # "Finalized") =>
                   rt["A"] = Some(PrefixSum(rows["A"], k))

\* C2: a process call whose row is NULL leaves the accumulator unchanged and
\* returns Ok with the unchanged running total; a NULL first row returns
\* Ok(0).
NullRowsContributeZero ==
    [][\A e \in Execs :
          (Len(rows'[e]) = Len(rows[e]) + 1 /\ IsNullRow(Last(rows'[e]))) =>
              /\ rt'[e] = rt[e]
              /\ Last(outputs'[e]) = Ok(rt[e].v)
              /\ (rows[e] = <<>> => Last(outputs'[e]) = Ok(Zero))]_vars

NullRowsWitness ==
    /\ Len(rows["A"]) = 3
    /\ rows["A"][1][1].value = IntNull
    /\ rows["A"][2][1].value = IntVal(FromInt(10))
    /\ rows["A"][3][1].value = IntNull
    /\ outputs["A"] = <<Ok(Zero), Ok(FromInt(10)), Ok(FromInt(10))>>
    /\ rt["A"] = Some(FromInt(10))

\* C3: init with an argument list of length n other than 1 returns
\* Err("expected 1 argument; got n"); the execution is Aborted and no
\* process call is ever made in it.
WrongArityRejected ==
    \A e \in Execs :
        (initRes[e] # NotCalled /\ Len(initArgs[e]) # 1) =>
            /\ initRes[e] =
                   Err("expected 1 argument; got " \o ToString(Len(initArgs[e])))
            /\ phase[e] = "Aborted"
            /\ ~rt[e].some
            /\ rows[e] = <<>> /\ outputs[e] = <<>>

WrongArityWitness ==
    /\ initArgs["A"] = <<>>
    /\ initRes["A"] = Err("expected 1 argument; got 0")
    /\ phase["A"] = "Aborted"

\* C4: init with an argument list of length exactly 1 succeeds whatever the
\* value, name and nullability of the argument, and before any process call
\* the accumulator is 0.
SingleArgumentAccepted ==
    \A e \in Execs :
        (initRes[e] # NotCalled /\ Len(initArgs[e]) = 1) =>
            /\ initRes[e].kind = "Ok"
            /\ (rows[e] = <<>> /\ phase[e] = "Initialized") => rt[e] = Some(Zero)

SingleArgumentWitness ==
    /\ Len(initArgs["A"]) = 1
    /\ initArgs["A"][1].value = IntNull
    /\ initArgs["A"][1].name = "n"
    /\ initArgs["A"][1].maybe_null
    /\ phase["A"] = "Initialized"
    /\ rows["A"] = <<>>
    /\ rt["A"] = Some(Zero)

\* C5: the value v in the argument list given to init is not added to the
\* total: the first process call with integer w returns Ok(w).
InitValueNotCounted ==
    \A e \in Execs :
        (Len(rows[e]) >= 1 /\ IsIntRow(rows[e][1])) =>
            outputs[e][1] = Ok(rows[e][1][1].value.int)

InitValueWitness ==
    /\ Len(initArgs["A"]) = 1
    /\ initArgs["A"][1].value = IntVal(FromInt(10))
    /\ Len(rows["A"]) = 1
    /\ rows["A"][1][1].value = IntVal(FromInt(10))
    /\ outputs["A"] = <<Ok(FromInt(10))>>

ProcessAlwaysOk ==
    \A k \in DOMAIN outputs["A"] :
        /\ outputs["A"][k].kind = "Ok"
        /\ phase["A"] \in {"Initialized", "Finalized"}

OwnPrefixSums(e) ==
    \A k \in DOMAIN rows[e] : outputs[e][k] = Ok(PrefixSum(rows[e], k))

Isolation ==
    [][\A e \in Execs :
          /\ OwnPrefixSums(e)'
          /\ (rows'[e] # rows[e] \/ initRes'[e] # initRes[e]) =>
                 \A f \in Execs \ {e} : rt'[f] = rt[f]]_vars

\* C10: once init has succeeded, every process call of the execution gets an
\* argument list of length 1, the length init saw, whose position 0 is the
\* same parameter, so the position-0 read finds an argument.
SameShapeEveryRow ==
    \A e \in Execs : \A k \in DOMAIN rows[e] :
        /\ Len(rows[e][k]) = 1
        /\ Len(rows[e][k]) = Len(initArgs[e])
        /\ get(rows[e][k], 0).some
        /\ rows[e][k][1].name = initArgs[e][1].name
        /\ rows[e][k][1].maybe_null = initArgs[e][1].maybe_null
        /\ outputs[e][k] # Panic("unwrap on None")

SameShapeWitness ==
    /\ initRes["A"].kind = "Ok"
    /\ Len(rows["A"]) = 3
    /\ \A k \in 1..3 : Len(rows["A"][k]) = 1 /\ rows["A"][k][1].name = "n"
    /\ rows["A"][1][1].value # rows["A"][2][1].value

\* C11: coercion is requested in init only: after a successful init the
\* request recorded for position 0 is Int, every row delivered afterwards
\* carries that request, and a process call leaves the recorded request as
\* it was.
CoercionOnlyInInit ==
    [][\A e \in Execs :
          /\ initRes'[e].kind = "Ok" =>
                 /\ initArgs'[e][1].coercion = "Int"
                 /\ \A k \in DOMAIN rows'[e] : rows'[e][k][1].coercion = "Int"
          /\ rows'[e] # rows[e] =>
                 /\ initArgs'[e] = initArgs[e]
                 /\ \A k \in DOMAIN rows[e] : rows'[e][k] = rows[e][k]
                 /\ Last(rows'[e])[1].coercion = initArgs[e][1].coercion]_vars

CoercionOnlyInInitWitness ==
    /\ initRes["A"].kind = "Ok"
    /\ initArgs["A"][1].coercion = "Int"
    /\ Len(rows["A"]) = 2
    /\ rows["A"][2][1].coercion = "Int"
    /\ rows["A"][2][1].value = StringVal

\* C12: the accumulator after each process call is the exact mathematical
\* sum of the integers delivered so far, so the addition never overflows.
AccumulatorExact ==
    \A e \in Execs : \A k \in DOMAIN rows[e] :
        /\ outputs[e][k] # Panic("add with overflow")
        /\ outputs[e][k].kind = "Ok" => outputs[e][k].val = PrefixSum(rows[e], k)
        /\ (k = Len(rows[e]) /\ rt[e].some) => rt[e].v = PrefixSum(rows[e], k)

\* the running total a process call starts from: what the call before it
\* returned, or the initial 0
TotalBefore(e, k) == IF k = 1 THEN Zero ELSE outputs[e][k - 1].val

\* C13: the error indicator does not influence process: the latest call,
\* whatever indicator it was given, returned what the same call returns under
\* every other indicator, and left the same accumulator.
ErrorFlagIgnored ==
    \A e \in Execs :
        rows[e] # <<>> =>
            LET k == Len(rows[e])
            IN  \A error \in ErrorFlags :
                    LET r == process(TotalBefore(e, k), rows[e][k], error,
                                     overflow_checks)
                    IN  /\ r.ret = outputs[e][k]
                        /\ rt[e].some => r.self = rt[e].v

ErrorFlagWitness ==
    /\ Len(rows["A"]) = 2
    /\ lastError["A"] = Some(255)
    /\ rows["A"][1][1].value = IntVal(FromInt(10))
    /\ rows["A"][2][1].value = IntVal(FromInt(-20))
    /\ outputs["A"] = <<Ok(FromInt(10)), Ok(FromInt(-10))>>
    /\ rt["A"] = Some(FromInt(-10))

\* C14: an init that fails on the arity check has no effect: no position of
\* the argument list has a coercion request recorded and no accumulator
\* exists.
FailedInitNoEffect ==
    \A e \in Execs :
        initRes[e].kind = "Err" =>
            /\ \A i \in DOMAIN initArgs[e] : initArgs[e][i].coercion = "NoCoercion"
            /\ ~rt[e].some
            /\ rows[e] = <<>>

FailedInitWitness ==
    /\ initRes["A"] = Err("expected 1 argument; got 2")
    /\ Len(initArgs["A"]) = 2
    /\ initArgs["A"][1].value = IntVal(FromInt(10))

\* the row's position-0 value is present but is not an Integer
IsNonIntRow(args) ==
    /\ Len(args) >= 1
    /\ args[1].value.tag \in {"Real", "Decimal", "String"}
    /\ ~args[1].value.null

\* C15: a row whose position-0 value is a Real, Decimal or String is treated
\* like NULL: the accumulator is unchanged and the call returns Ok with the
\* unchanged running total.
NonIntRowsContributeZero ==
    [][\A e \in Execs :
          (Len(rows'[e]) = Len(rows[e]) + 1 /\ IsNonIntRow(Last(rows'[e]))) =>
              /\ rt'[e] = rt[e]
              /\ Last(outputs'[e]) = Ok(rt[e].v)
              /\ phase'[e] = "Initialized"]_vars

NonIntRowsWitness ==
    /\ Len(rows["A"]) = 3
    /\ rows["A"][1][1].value = IntVal(FromInt(10))
    /\ rows["A"][2][1].value = DecimalVal
    /\ rows["A"][3][1].value = RealVal
    /\ outputs["A"] = <<Ok(FromInt(10)), Ok(FromInt(10)), Ok(FromInt(10))>>
    /\ rt["A"] = Some(FromInt(10))

TypeOK ==
    /\ overflow_checks \in BOOLEAN
    /\ \A e \in Execs :
          /\ phase[e] \in {"Uninitialized", "Initialized", "Aborted", "Finalized"}
          /\ initRes[e].kind \in {"NotCalled", "Ok", "Err", "Panic"}
          /\ Len(outputs[e]) = Len(rows[e])
          /\ rt[e].some => InI64(rt[e].v)
====
